---- MODULE Spec2Model ----
(***************************************************************************)
(* Model of the medichatbot service (app.py): the lazily initialised RAG   *)
(* chain singleton (get_rag_chain) and the /get request handler (chat),    *)
(* executed by several request-handling workers of one process.            *)
(* Every program counter value is the line of app.py the worker is about   *)
(* to execute.                                                             *)
(***************************************************************************)
EXTENDS Naturals, Sequences, FiniteSets

\* ---------------------------------------------------------------- bounds
NumWorkers == 2      \* request-handling threads of the process
MaxRequests == 2     \* /get requests received over a run
MaxRuns == 2         \* runs of the batch job store_index.py
MaxDocs == 2         \* documents in a corpus of short documents

Workers == 1..NumWorkers

\* ---------------------------------------------------------------- values
\* Python values are records tagged with their kind so that any two compare.
None == [kind |-> "None"]
Str(s) == [kind |-> "str", val |-> s]

\* truth value of a Python object (None and "" are falsy)
Truthy(v) == v.kind # "None" /\ ~(v.kind = "str" /\ v.val = "")

\* Python's `a or b`: a when a is truthy, else b
PyOr(a, b) == IF Truthy(a) THEN a ELSE b

\* what os.getenv may return for a key: unset, set to empty, set
EnvValues == {None, Str(""), Str("key")}

\* what request.form.get("msg") / request.args.get("msg") may return
FormValues == {None, Str(""), Str("hi")}
ArgsValues == {None, Str(""), Str("fever")}

\* what rag_chain.invoke may return (or it raises)
InvokeResults == { [kind |-> "raise"],
                   [kind |-> "dict", answer |-> Str("X")],
                   [kind |-> "dict", answer |-> None],
                   [kind |-> "other", str |-> "text"] }

\* str(v) for the values the handler converts
PyStr(v) == IF v.kind = "None" THEN "None" ELSE v.val

\* a (body, status) pair returned by a view function
Resp(status, error, details, body) ==
    [status |-> status, error |-> error, details |-> details, body |-> body]

VARIABLES
    PINECONE_API_KEY,       \* app.py:14, fixed at import
    GROQ_AVAILABLE,         \* app.py:26/29, fixed at import
    _rag_chain,             \* app.py:36
    _retriever,             \* app.py:37
    _chat_model,            \* app.py:38
    pc,                     \* per worker: next line to execute, or "idle"
    msg,                    \* chat(): local msg
    embeddings,             \* get_rag_chain(): local embeddings
    docsearch,              \* get_rag_chain(): local docsearch
    question_answer_chain,  \* get_rag_chain(): local question_answer_chain
    rag_chain,              \* chat(): local rag_chain
    log,                    \* requests answered, in order of completion
    pages,                  \* pages served by health() and index(), in order
    embLoads,               \* calls of download_hugging_face_embeddings
    connects,               \* calls of PineconeVectorStore.from_existing_index
    groqConstructs,         \* calls of ChatGroq(...)
    composes,               \* calls of create_retrieval_chain
    invokes,                \* calls of rag_chain.invoke
    indexes,                \* remote store: the indexes of the Pinecone account
    entries,                \* remote store: entries of index "medical-chatbot"
    bpc,                    \* store_index.py: next line to execute, or off/done/failed
    runs,                   \* runs of store_index.py started so far
    si_PINECONE_API_KEY,    \* store_index.py:10
    si_GROQ_API_KEY,        \* store_index.py:11
    extracted_data,         \* store_index.py:23
    filter_data,            \* store_index.py:26
    texts_chunk,            \* store_index.py:27
    calls,                  \* calls made by the current run, in order
    creates,                \* calls of pc.create_index over all runs
    uploaded                \* chunks of texts_chunk upserted by the current run

config == <<PINECONE_API_KEY, GROQ_AVAILABLE>>
globals == <<_rag_chain, _retriever, _chat_model>>
locals == <<msg, embeddings, docsearch, question_answer_chain, rag_chain>>
counters == <<embLoads, connects, groqConstructs, composes, invokes>>
remote == <<indexes, entries>>
batch == <<bpc, runs, si_PINECONE_API_KEY, si_GROQ_API_KEY, extracted_data,
           filter_data, texts_chunk, calls, creates, uploaded>>
vars == <<config, globals, pc, locals, log, pages, counters, remote, batch>>

\* store_index.py:38/44-46 and app.py:69: the index both programs name
index_name == "medical-chatbot"
MedIndex == [name |-> index_name, dimension |-> 384, metric |-> "cosine"]

\* another index of the same account
OtherIndex == [name |-> "other", dimension |-> 1536, metric |-> "dotproduct"]

\* pc.list_indexes().names()
Names(ixs) == {ix.name : ix \in ixs}

\* an entry of the index: upserted by run r as its i-th chunk
IndexEntry(r, i) == [run |-> r, chunk |-> i]

\* the remote store when the process starts: no "medical-chatbot" index, an
\* empty one, or one filled by an earlier ingestion
RemoteStates == { <<{OtherIndex}, << >> >>,
                  <<{MedIndex, OtherIndex}, << >> >>,
                  <<{MedIndex, OtherIndex}, <<IndexEntry(0, 1)>> >> }

Init ==
    /\ PINECONE_API_KEY \in EnvValues
    /\ GROQ_AVAILABLE \in BOOLEAN
    /\ _rag_chain = None
    /\ _retriever = None
    /\ _chat_model = None
    /\ pc = [w \in Workers |-> "idle"]
    /\ msg = [w \in Workers |-> None]
    /\ embeddings = [w \in Workers |-> None]
    /\ docsearch = [w \in Workers |-> None]
    /\ question_answer_chain = [w \in Workers |-> None]
    /\ rag_chain = [w \in Workers |-> None]
    /\ log = << >>
    /\ pages = << >>
    /\ embLoads = 0
    /\ connects = 0
    /\ groqConstructs = 0
    /\ composes = 0
    /\ invokes = 0
    /\ \E r \in RemoteStates : indexes = r[1] /\ entries = r[2]
    /\ bpc = "off"
    /\ runs = 0
    /\ si_PINECONE_API_KEY = None
    /\ si_GROQ_API_KEY = None
    /\ extracted_data = None
    /\ filter_data = None
    /\ texts_chunk = None
    /\ calls = << >>
    /\ creates = 0
    /\ uploaded = 0

\* requests accepted so far: answered ones and those still being handled
Received == Len(log) + Len(pages) + Cardinality({w \in Workers : pc[w] # "idle"})

\* the worker's frames are dropped when its request ends
DropFrames(w) ==
    /\ msg' = [msg EXCEPT ![w] = None]
    /\ embeddings' = [embeddings EXCEPT ![w] = None]
    /\ docsearch' = [docsearch EXCEPT ![w] = None]
    /\ question_answer_chain' = [question_answer_chain EXCEPT ![w] = None]
    /\ rag_chain' = [rag_chain EXCEPT ![w] = None]

\* one entry of the log: the message of a request and the response it got
Entry(m, r) == [request |-> m, response |-> r]

\* the request of worker w ends with response r
Respond(w, r) ==
    /\ log' = Append(log, Entry(msg[w], r))
    /\ pc' = [pc EXCEPT ![w] = "idle"]
    /\ DropFrames(w)

\* get_rag_chain() raises RuntimeError(text): chat() line 139-141
RaiseRuntimeError(w, text) ==
    Respond(w, Resp(500, "Initialization failed", text, ""))

\* RaiseException without the handler of lines 142-143: the exception leaves
\* chat() and the framework answers with its own error page
RaiseException_Uncaught(w, text) ==
    Respond(w, Resp(500, "", "", "Internal Server Error"))

\* get_rag_chain() raises another exception: chat() line 142-143
RaiseException(w, text) ==
    Respond(w, Resp(500, "Unexpected initialization error", text, ""))

Goto(w, line) == pc' = [pc EXCEPT ![w] = line]

\* health(), lines 114-117: answers 200 {"status": "ok"}, touches nothing else
Health(w) ==
    /\ pc[w] = "idle"
    /\ Received < MaxRequests
    /\ pages' = Append(pages, [status |-> 200, body |-> "ok"])
    /\ UNCHANGED <<config, globals, pc, locals, log, counters>>
    /\ UNCHANGED remote

\* index(), lines 120-122: renders chat.html, touches nothing else
Index(w) ==
    /\ pc[w] = "idle"
    /\ Received < MaxRequests
    /\ pages' = Append(pages, [status |-> 200, body |-> "chat.html"])
    /\ UNCHANGED <<config, globals, pc, locals, log, counters>>
    /\ UNCHANGED remote

\* Chat without the validation of lines 134-135
Chat_NoValidation(w, form, args) ==
    /\ pc[w] = "idle"
    /\ Received < MaxRequests
    /\ Goto(w, "l47")
    /\ msg' = [msg EXCEPT ![w] = PyOr(PyOr(form, args), Str(""))]
    /\ UNCHANGED <<log, embeddings, docsearch, question_answer_chain, rag_chain>>
    /\ UNCHANGED <<config, globals, counters>>
    /\ UNCHANGED remote

\* chat(), lines 133-138: read msg, reject an empty one, else call get_rag_chain
Chat(w, form, args) ==
    /\ pc[w] = "idle"
    /\ Received < MaxRequests
    /\ LET m == PyOr(PyOr(form, args), Str(""))
       IN IF ~Truthy(m)
          THEN /\ log' = Append(log, Entry(m, Resp(400, "No message provided", "", "")))
               /\ UNCHANGED <<pc, locals>>
          ELSE /\ Goto(w, "l47")
               /\ msg' = [msg EXCEPT ![w] = m]
               /\ UNCHANGED <<log, embeddings, docsearch,
                              question_answer_chain, rag_chain>>
    /\ UNCHANGED <<config, globals, counters>>
    /\ UNCHANGED remote

\* CheckChain without the early return of lines 47-48
CheckChain_NoEarlyReturn(w) ==
    /\ pc[w] = "l47"
    /\ Goto(w, "l51")
    /\ UNCHANGED <<config, globals, locals, log, counters>>
    /\ UNCHANGED remote

\* get_rag_chain(), lines 47-48: return the stored chain when there is one
CheckChain(w) ==
    /\ pc[w] = "l47"
    /\ IF _rag_chain # None
       THEN /\ rag_chain' = [rag_chain EXCEPT ![w] = _rag_chain]
            /\ Goto(w, "l146")
       ELSE /\ Goto(w, "l51")
            /\ UNCHANGED rag_chain
    /\ UNCHANGED <<config, globals, msg, embeddings, docsearch,
                   question_answer_chain, log, counters>>
    /\ UNCHANGED remote

\* KeyCheck followed at once by the chat-model check
KeyCheck_ThenChatModel(w) ==
    /\ pc[w] = "l51"
    /\ IF ~Truthy(PINECONE_API_KEY)
       THEN RaiseRuntimeError(w, "PINECONE_API_KEY is not set in environment.")
       ELSE Goto(w, "l89") /\ UNCHANGED <<locals, log>>
    /\ UNCHANGED <<config, globals, counters>>
    /\ UNCHANGED remote

\* KeyCheck testing `PINECONE_API_KEY is None` instead of its truth value
KeyCheck_NoneOnly(w) ==
    /\ pc[w] = "l51"
    /\ IF PINECONE_API_KEY = None
       THEN RaiseRuntimeError(w, "PINECONE_API_KEY is not set in environment.")
       ELSE Goto(w, "l58") /\ UNCHANGED <<locals, log>>
    /\ UNCHANGED <<config, globals, counters>>
    /\ UNCHANGED remote

\* lines 51-52: the Pinecone key must be set
KeyCheck(w) ==
    /\ pc[w] = "l51"
    /\ IF ~Truthy(PINECONE_API_KEY)
       THEN RaiseRuntimeError(w, "PINECONE_API_KEY is not set in environment.")
       ELSE Goto(w, "l58") /\ UNCHANGED <<locals, log>>
    /\ UNCHANGED <<config, globals, counters>>
    /\ UNCHANGED remote

\* lines 56-60: load the embeddings model
LoadEmbeddings(w, ok) ==
    /\ pc[w] = "l58"
    /\ embLoads' = embLoads + 1
    /\ IF ok
       THEN /\ embeddings' = [embeddings EXCEPT ![w] =
                                 [kind |-> "embeddings", id |-> embLoads + 1]]
            /\ Goto(w, "l64")
            /\ UNCHANGED <<msg, docsearch, question_answer_chain, rag_chain, log>>
       ELSE RaiseRuntimeError(w, "Failed to load embeddings")
    /\ UNCHANGED <<config, globals, connects, groqConstructs, composes, invokes>>
    /\ UNCHANGED remote

\* lines 62-66: import PineconeVectorStore
ImportPinecone(w, ok) ==
    /\ pc[w] = "l64"
    /\ IF ok
       THEN Goto(w, "l71") /\ UNCHANGED <<locals, log>>
       ELSE RaiseRuntimeError(w, "Failed to import PineconeVectorStore")
    /\ UNCHANGED <<config, globals, counters>>
    /\ UNCHANGED remote

\* ConnectIndex creating the index when the account has none of that name
ConnectIndex_CreatesIfAbsent(w, ok) ==
    /\ pc[w] = "l71"
    /\ connects' = connects + 1
    /\ IF ok
       THEN /\ docsearch' = [docsearch EXCEPT ![w] =
                                [kind |-> "docsearch", id |-> connects + 1,
                                 embedding |-> embeddings[w]]]
            /\ Goto(w, "l78")
            /\ indexes' = indexes \cup
                             (IF index_name \in Names(indexes) THEN {} ELSE {MedIndex})
            /\ UNCHANGED <<msg, embeddings, question_answer_chain, rag_chain,
                           log, entries>>
       ELSE /\ RaiseRuntimeError(w, "Failed to connect to Pinecone index 'medical-chatbot'")
            /\ UNCHANGED remote
    /\ UNCHANGED <<config, globals, embLoads, groqConstructs, composes, invokes>>

\* lines 69-76: connect to the existing index; fails when the service cannot
\* be reached (~ok) or has no index of that name
ConnectIndex(w, ok) ==
    /\ pc[w] = "l71"
    /\ connects' = connects + 1
    /\ IF ok /\ index_name \in Names(indexes)
       THEN /\ docsearch' = [docsearch EXCEPT ![w] =
                                [kind |-> "docsearch", id |-> connects + 1,
                                 embedding |-> embeddings[w]]]
            /\ Goto(w, "l78")
            /\ UNCHANGED <<msg, embeddings, question_answer_chain, rag_chain, log>>
       ELSE RaiseRuntimeError(w, "Failed to connect to Pinecone index 'medical-chatbot'")
    /\ UNCHANGED <<config, globals, embLoads, groqConstructs, composes, invokes>>
    /\ UNCHANGED remote

\* MakeRetriever storing the retriever under the wrong global, _rag_chain
MakeRetriever_WrongGlobal(w) ==
    /\ pc[w] = "l78"
    /\ _rag_chain' = [kind |-> "retriever", id |-> docsearch[w].id, k |-> 3, by |-> w]
    /\ Goto(w, "l82")
    /\ UNCHANGED <<config, _retriever, _chat_model, locals, log, counters>>
    /\ UNCHANGED remote

\* line 78: build the retriever and store it in the module-level _retriever
MakeRetriever(w) ==
    /\ pc[w] = "l78"
    /\ _retriever' = [kind |-> "retriever", id |-> docsearch[w].id, k |-> 3, by |-> w]
    /\ Goto(w, "l82")
    /\ UNCHANGED <<config, _rag_chain, _chat_model, locals, log, counters>>
    /\ UNCHANGED remote

\* lines 81-86: import the chain builders
ImportBuilders(w, ok) ==
    /\ pc[w] = "l82"
    /\ IF ok
       THEN Goto(w, "l89") /\ UNCHANGED <<locals, log>>
       ELSE RaiseRuntimeError(w, "Failed to import LangChain chain builders")
    /\ UNCHANGED <<config, globals, counters>>
    /\ UNCHANGED remote

\* MakeChatModel keeping a chat model that is already stored
MakeChatModel_Reuse(w, ok) ==
    /\ pc[w] = "l89"
    /\ IF _chat_model # None
       THEN /\ Goto(w, "l103")
            /\ UNCHANGED <<_chat_model, groqConstructs, locals, log>>
       ELSE IF GROQ_AVAILABLE
       THEN /\ groqConstructs' = groqConstructs + 1
            /\ IF ok
               THEN /\ _chat_model' = [kind |-> "ChatGroq", by |-> w,
                                       id |-> groqConstructs + 1]
                    /\ Goto(w, "l103")
                    /\ UNCHANGED <<locals, log>>
               ELSE /\ RaiseRuntimeError(w, "Failed to initialize ChatGroq")
                    /\ UNCHANGED _chat_model
       ELSE /\ RaiseRuntimeError(w,
                  "Groq model not available in this deployment (langchain_groq missing).")
            /\ UNCHANGED <<_chat_model, groqConstructs>>
    /\ UNCHANGED <<config, _rag_chain, _retriever, embLoads, connects,
                   composes, invokes>>
    /\ UNCHANGED remote

\* MakeChatModel clearing the stored chain when the construction fails
MakeChatModel_CleanupOnFailure(w, ok) ==
    /\ pc[w] = "l89"
    /\ IF GROQ_AVAILABLE
       THEN /\ groqConstructs' = groqConstructs + 1
            /\ IF ok
               THEN /\ _chat_model' = [kind |-> "ChatGroq", by |-> w,
                                       id |-> groqConstructs + 1]
                    /\ Goto(w, "l103")
                    /\ UNCHANGED <<_rag_chain, locals, log>>
               ELSE /\ RaiseRuntimeError(w, "Failed to initialize ChatGroq")
                    /\ _rag_chain' = None
                    /\ UNCHANGED _chat_model
       ELSE /\ RaiseRuntimeError(w,
                  "Groq model not available in this deployment (langchain_groq missing).")
            /\ UNCHANGED <<_rag_chain, _chat_model, groqConstructs>>
    /\ UNCHANGED <<config, _retriever, embLoads, connects, composes, invokes>>
    /\ UNCHANGED remote

\* MakeChatModel falling back to a stand-in model when Groq is unavailable
MakeChatModel_Fallback(w, ok) ==
    /\ pc[w] = "l89"
    /\ IF GROQ_AVAILABLE
       THEN /\ groqConstructs' = groqConstructs + 1
            /\ IF ok
               THEN /\ _chat_model' = [kind |-> "ChatGroq", by |-> w,
                                       id |-> groqConstructs + 1]
                    /\ Goto(w, "l103")
                    /\ UNCHANGED <<locals, log>>
               ELSE /\ RaiseRuntimeError(w, "Failed to initialize ChatGroq")
                    /\ UNCHANGED _chat_model
       ELSE /\ _chat_model' = [kind |-> "Fallback", by |-> w, id |-> 0]
            /\ Goto(w, "l103")
            /\ UNCHANGED <<groqConstructs, locals, log>>
    /\ UNCHANGED <<config, _rag_chain, _retriever, embLoads, connects,
                   composes, invokes>>
    /\ UNCHANGED remote

\* lines 89-101: construct the chat model, or raise when Groq is unavailable
MakeChatModel(w, ok) ==
    /\ pc[w] = "l89"
    /\ IF GROQ_AVAILABLE
       THEN /\ groqConstructs' = groqConstructs + 1
            /\ IF ok
               THEN /\ _chat_model' = [kind |-> "ChatGroq", by |-> w,
                                       id |-> groqConstructs + 1]
                    /\ Goto(w, "l103")
                    /\ UNCHANGED <<locals, log>>
               ELSE /\ RaiseRuntimeError(w, "Failed to initialize ChatGroq")
                    /\ UNCHANGED _chat_model
       ELSE /\ RaiseRuntimeError(w,
                  "Groq model not available in this deployment (langchain_groq missing).")
            /\ UNCHANGED <<_chat_model, groqConstructs>>
    /\ UNCHANGED <<config, _rag_chain, _retriever, embLoads, connects,
                   composes, invokes>>
    /\ UNCHANGED remote

\* lines 103-110: build the prompt and the question-answer chain from the
\* module-level _chat_model; the builder validates the prompt and may raise
MakeQAChain(w, ok) ==
    /\ pc[w] = "l103"
    /\ IF ok
       THEN /\ question_answer_chain' = [question_answer_chain EXCEPT ![w] =
                                            [kind |-> "qa", model |-> _chat_model]]
            /\ Goto(w, "l111")
            /\ UNCHANGED <<msg, embeddings, docsearch, rag_chain, log>>
       ELSE RaiseException(w, "chain builder raised")
    /\ UNCHANGED <<config, globals, counters>>
    /\ UNCHANGED remote

\* line 111: compose the chain from the module-level _retriever and store it
ComposeChain(w) ==
    /\ pc[w] = "l111"
    /\ composes' = composes + 1
    /\ _rag_chain' = [kind |-> "chain", id |-> composes + 1, by |-> w,
                      retriever |-> _retriever,
                      model |-> question_answer_chain[w].model]
    /\ Goto(w, "l113")
    /\ UNCHANGED <<config, _retriever, _chat_model, locals, log,
                   embLoads, connects, groqConstructs, invokes>>
    /\ UNCHANGED remote

\* line 113 and chat() line 138: return the module-level _rag_chain
ReturnChain(w) ==
    /\ pc[w] = "l113"
    /\ rag_chain' = [rag_chain EXCEPT ![w] = _rag_chain]
    /\ Goto(w, "l146")
    /\ UNCHANGED <<config, globals, msg, embeddings, docsearch,
                   question_answer_chain, log, counters>>
    /\ UNCHANGED remote

\* chat(), line 147: the answer extracted from what invoke returned
AnswerOf(response) ==
    IF response.kind = "dict" THEN response.answer ELSE Str(response.str)

\* Invoke calling the chain again when the call raises
Invoke_RetryOnFailure(w, response) ==
    /\ pc[w] = "l146"
    /\ invokes' = invokes + 1
    /\ IF response.kind = "raise"
       THEN UNCHANGED <<pc, locals, log>>
       ELSE Respond(w, Resp(200, "", "", PyStr(AnswerOf(response))))
    /\ UNCHANGED <<config, globals, embLoads, connects, groqConstructs, composes>>
    /\ UNCHANGED remote

\* Invoke dropping the stored chain when the call raises
Invoke_ResetOnFailure(w, response) ==
    /\ pc[w] = "l146"
    /\ invokes' = invokes + 1
    /\ IF response.kind = "raise"
       THEN /\ Respond(w, Resp(500, "Chain execution failed", "invoke raised", ""))
            /\ _rag_chain' = None
            /\ UNCHANGED <<_retriever, _chat_model>>
       ELSE /\ Respond(w, Resp(200, "", "", PyStr(AnswerOf(response))))
            /\ UNCHANGED globals
    /\ UNCHANGED <<config, embLoads, connects, groqConstructs, composes>>
    /\ UNCHANGED remote

\* chat(), lines 145-154: run the chain once and answer
Invoke(w, response) ==
    /\ pc[w] = "l146"
    /\ invokes' = invokes + 1
    /\ IF response.kind = "raise"
       THEN Respond(w, Resp(500, "Chain execution failed", "invoke raised", ""))
       ELSE Respond(w, Resp(200, "", "", PyStr(AnswerOf(response))))
    /\ UNCHANGED <<config, globals, embLoads, connects, groqConstructs, composes>>
    /\ UNCHANGED remote

\* ------------------------------------------------- helper.py: documents
\* a text is the sequence of its characters
Document(page_content, metadata) ==
    [page_content |-> page_content, metadata |-> metadata]

Int(n) == [kind |-> "int", val |-> n]

\* dict.get(key): None when the key is absent
DictGet(d, key) == IF key \in DOMAIN d THEN d[key] ELSE None

\* filter_to_minimal_docs dropping the documents that have no source
filter_to_minimal_docs_DropsUnsourced(docs) ==
    SelectSeq([i \in 1..Len(docs) |->
                  Document(docs[i].page_content,
                           [source |-> DictGet(docs[i].metadata, "source")])],
              LAMBDA d : d.metadata.source # None)

\* helper.py, lines 17-24
filter_to_minimal_docs(docs) ==
    [i \in 1..Len(docs) |->
        Document(docs[i].page_content,
                 [source |-> DictGet(docs[i].metadata, "source")])]

\* --------------------------- RecursiveCharacterTextSplitter (library code)
chunk_size == 500
chunk_overlap == 20

Whitespace == {" ", "\n"}

\* the default separators: paragraph, line, word, character
Separators == << <<"\n", "\n">>, <<"\n">>, <<" ">>, << >> >>

\* a split of a text t: its characters from..to
Piece(from, to) == [from |-> from, to |-> to]
PieceLen(p) == (p.to + 1) - p.from

\* str.strip(): the text without leading and trailing whitespace
Strip(t) ==
    IF \A i \in 1..Len(t) : t[i] \in Whitespace
    THEN << >>
    ELSE LET first == CHOOSE i \in 1..Len(t) :
                         /\ t[i] \notin Whitespace
                         /\ \A j \in 1..(i - 1) : t[j] \in Whitespace
             last == CHOOSE i \in 1..Len(t) :
                         /\ t[i] \notin Whitespace
                         /\ \A j \in (i + 1)..Len(t) : t[j] \in Whitespace
         IN SubSeq(t, first, last)

\* first position of the run of the character c that contains position i
RunStart(t, i, c) ==
    CHOOSE j \in 1..i : (j = 1 \/ t[j - 1] # c) /\ \A k \in (j + 1)..i : t[k - 1] = c

\* re.split: start positions of the non-overlapping matches of sep, leftmost
\* first (each separator repeats one character); "" matches at every character
MatchStarts(t, sep) ==
    IF sep = << >>
    THEN 1..Len(t)
    ELSE { i \in 1..Len(t) :
              /\ i + Len(sep) <= Len(t) + 1
              /\ \A j \in 1..Len(sep) : t[i + j - 1] = sep[1]
              /\ (i - RunStart(t, i, sep[1])) % Len(sep) = 0 }

\* _split_text: index of the first separator of separators[k..] that is ""
\* or occurs in t
RECURSIVE PickSeparator(_, _)
PickSeparator(t, k) ==
    IF k >= Len(Separators) \/ Separators[k] = << >>
          \/ MatchStarts(t, Separators[k]) # {}
    THEN k
    ELSE PickSeparator(t, k + 1)

\* _join_docs with separator "": the splits of current_doc are consecutive,
\* so their concatenation is t from the first to the last of them; stripped
JoinDocs(t, cur) == Strip(SubSeq(t, cur[1].from, cur[Len(cur)].to))

\* total length of current_doc once its first k splits are popped
TotalAfter(cur, k) ==
    IF k >= Len(cur) THEN 0 ELSE (cur[Len(cur)].to + 1) - cur[k + 1].from

\* the while loop of _merge_splits: how many splits it pops before a split
\* of length len is added
Popped(cur, len, size, overlap) ==
    LET Go(k) == \/ TotalAfter(cur, k) > overlap
                 \/ (TotalAfter(cur, k) + len > size /\ TotalAfter(cur, k) > 0)
    IN CHOOSE k \in 0..Len(cur) : ~Go(k) /\ \A j \in 0..(k - 1) : Go(j)

\* _merge_splits: body of the for loop for the split d
MergeOne(t, st, d, size, overlap) ==
    LET len == PieceLen(d)
        flush == st.total + len > size /\ Len(st.cur) > 0
        joined == JoinDocs(t, st.cur)
        k == Popped(st.cur, len, size, overlap)
    IN [cur |-> Append(IF flush THEN SubSeq(st.cur, k + 1, Len(st.cur)) ELSE st.cur, d),
        total |-> (IF flush THEN TotalAfter(st.cur, k) ELSE st.total) + len,
        docs |-> IF flush /\ joined # << >> THEN Append(st.docs, joined) ELSE st.docs]

\* _merge_splits: the for loop over splits[lo..hi], from the state st
RECURSIVE MergeLoop(_, _, _, _, _, _, _)
MergeLoop(t, splits, lo, hi, st, size, overlap) ==
    IF lo > hi THEN st
    ELSE IF lo = hi THEN MergeOne(t, st, splits[lo], size, overlap)
    ELSE LET mid == (lo + hi) \div 2
             left == MergeLoop(t, splits, lo, mid, st, size, overlap)
         IN IF left.total >= 0
            THEN MergeLoop(t, splits, mid + 1, hi, left, size, overlap)
            ELSE left

\* _merge_splits(splits, "")
MergeSplits(t, splits, size, overlap) ==
    LET st == MergeLoop(t, splits, 1, Len(splits),
                        [cur |-> << >>, total |-> 0, docs |-> << >>], size, overlap)
        joined == IF st.cur = << >> THEN << >> ELSE JoinDocs(t, st.cur)
    IN IF joined # << >> THEN Append(st.docs, joined) ELSE st.docs

\* _split_text: merge the pending good splits, if any
MergeGood(t, good, size, overlap) ==
    IF good = << >> THEN << >> ELSE MergeSplits(t, good, size, overlap)

RECURSIVE SplitText(_, _, _, _)
RECURSIVE SplitLoop(_, _, _, _, _, _, _, _)

\* _split_text: the for loop over the splits of t that end in lo..hi; a split
\* ends before the next match of the separator, which is kept at the start of
\* the split that follows it
SplitLoop(t, starts, next, lo, hi, st, size, overlap) ==
    IF lo > hi THEN st
    ELSE IF lo = hi
    THEN IF lo < Len(t) /\ (lo + 1) \notin starts
         THEN st
         ELSE LET s == Piece(st.from, lo)
              IN IF PieceLen(s) < size
                 THEN [from |-> lo + 1, good |-> Append(st.good, s), out |-> st.out]
                 ELSE [from |-> lo + 1, good |-> << >>,
                       out |-> st.out \o MergeGood(t, st.good, size, overlap)
                               \o (IF next > Len(Separators)
                                   THEN << SubSeq(t, s.from, s.to) >>
                                   ELSE SplitText(SubSeq(t, s.from, s.to), next,
                                                  size, overlap))]
    ELSE LET mid == (lo + hi) \div 2
             left == SplitLoop(t, starts, next, lo, mid, st, size, overlap)
         IN IF left.from >= 1
            THEN SplitLoop(t, starts, next, mid + 1, hi, left, size, overlap)
            ELSE left

\* _split_text(t, separators[k..])
SplitText(t, k, size, overlap) ==
    LET i == PickSeparator(t, k)
        next == IF Separators[i] = << >> THEN Len(Separators) + 1 ELSE i + 1
        st == SplitLoop(t, MatchStarts(t, Separators[i]), next, 1, Len(t),
                        [from |-> 1, good |-> << >>, out |-> << >>], size, overlap)
    IN st.out \o MergeGood(t, st.good, size, overlap)

\* split_documents over docs[1..n]: each chunk gets its document's metadata
RECURSIVE SplitDocuments(_, _, _, _)
SplitDocuments(docs, n, size, overlap) ==
    IF n = 0 THEN << >>
    ELSE LET chunks == SplitText(docs[n].page_content, 1, size, overlap)
         IN SplitDocuments(docs, n - 1, size, overlap)
            \o [i \in 1..Len(chunks) |-> Document(chunks[i], docs[n].metadata)]

\* text_split with chunk_size=1000
text_split_DoubleSize(minimal_docs) ==
    SplitDocuments(minimal_docs, Len(minimal_docs), 2 * chunk_size, chunk_overlap)

\* helper.py, lines 27-32
text_split(minimal_docs) ==
    SplitDocuments(minimal_docs, Len(minimal_docs), chunk_size, chunk_overlap)

\* a step of get_rag_chain() or chat()
ChatStep(w) ==
    \/ \E form \in FormValues, args \in ArgsValues : Chat(w, form, args)
    \/ CheckChain(w)
    \/ KeyCheck(w)
    \/ \E ok \in BOOLEAN : LoadEmbeddings(w, ok)
    \/ \E ok \in BOOLEAN : ImportPinecone(w, ok)
    \/ \E ok \in BOOLEAN : ConnectIndex(w, ok)
    \/ MakeRetriever(w)
    \/ \E ok \in BOOLEAN : ImportBuilders(w, ok)
    \/ \E ok \in BOOLEAN : MakeChatModel(w, ok)
    \/ \E ok \in BOOLEAN : MakeQAChain(w, ok)
    \/ ComposeChain(w)
    \/ ReturnChain(w)
    \/ \E response \in InvokeResults : Invoke(w, response)

Step(w) ==
    /\ UNCHANGED batch
    /\ \/ Health(w)
       \/ Index(w)
       \/ ChatStep(w) /\ UNCHANGED pages

\* workers interleave at every line (threaded server)
Next == \E w \in Workers : Step(w)

Spec == Init /\ [][Next]_vars

\* one request at a time: a request is accepted only when no other is handled
AllIdle == \A w \in Workers : pc[w] = "idle"

NextSeq == \E w \in Workers : (pc[w] = "idle" => AllIdle) /\ Step(w)

SeqSpec == Init /\ [][NextSeq]_vars

\* --------------------------------------------------- store_index.py
service == <<config, globals, pc, locals, log, pages, counters>>

Rep(c, n) == [i \in 1..n |-> c]

\* n words of w letters, separated by single spaces
Words(n, w) ==
    [i \in 1..(n * (w + 1) - 1) |-> IF i % (w + 1) = 0 THEN " " ELSE "a"]

\* metadata as a loader gives it, already minimal, and without a source
Metadatas == { [source |-> Str("data/a.pdf"), page |-> Int(0)],
               [source |-> Str("data/b.pdf")],
               [page |-> Int(1)] }

ShortDocs ==
    {Document(<<"a", "b", " ", "c">>, m) : m \in Metadatas}
       \cup {Document(<< >>, [source |-> Str("data/a.pdf"), page |-> Int(1)])}

\* pages longer than a chunk: one long token; words; paragraphs and lines
LongDocs ==
    { Document(Rep("a", 2 * chunk_size + 100),
               [source |-> Str("data/a.pdf"), page |-> Int(0)]),
      Document(Words(130, 4), [page |-> Int(2)]),
      Document(<<"a", "b", "\n", "\n">> \o Words(110, 4) \o <<"\n", "c", "d">>,
               [source |-> Str("data/b.pdf"), page |-> Int(3)]) }

\* what load_pdf_file("data/") may return
Corpora ==
    UNION {[1..k -> ShortDocs] : k \in 0..MaxDocs} \cup {<<d>> : d \in LongDocs}

Called(name) == calls' = Append(calls, name)

\* the script ends with an uncaught exception
Abort == bpc' = "failed"

\* lines 8-11: a run starts and reads its environment
BatchStart(key, groq) ==
    /\ bpc \in {"off", "done", "failed"}
    /\ runs < MaxRuns
    /\ runs' = runs + 1
    /\ bpc' = "s13"
    /\ si_PINECONE_API_KEY' = key
    /\ si_GROQ_API_KEY' = groq
    /\ extracted_data' = None
    /\ filter_data' = None
    /\ texts_chunk' = None
    /\ calls' = << >>
    /\ uploaded' = 0
    /\ UNCHANGED <<creates, remote, service>>

\* BatchKeyCheck without the raise of line 14
BatchKeyCheck_NoAbort ==
    /\ bpc = "s13"
    /\ bpc' = "s16"
    /\ UNCHANGED <<runs, si_PINECONE_API_KEY, si_GROQ_API_KEY, extracted_data,
                   filter_data, texts_chunk, calls, creates, uploaded,
                   remote, service>>

\* lines 13-14: the Pinecone key must be set
BatchKeyCheck ==
    /\ bpc = "s13"
    /\ IF ~Truthy(si_PINECONE_API_KEY) THEN Abort ELSE bpc' = "s16"
    /\ UNCHANGED <<runs, si_PINECONE_API_KEY, si_GROQ_API_KEY, extracted_data,
                   filter_data, texts_chunk, calls, creates, uploaded,
                   remote, service>>

\* lines 16-17: os.environ[...] = value raises TypeError for None
BatchSetEnv ==
    /\ bpc = "s16"
    /\ IF si_GROQ_API_KEY = None THEN Abort ELSE bpc' = "s23"
    /\ UNCHANGED <<runs, si_PINECONE_API_KEY, si_GROQ_API_KEY, extracted_data,
                   filter_data, texts_chunk, calls, creates, uploaded,
                   remote, service>>

\* line 23: load the PDF files (a corrupt file raises)
LoadPdfFile(ok, corpus) ==
    /\ bpc = "s23"
    /\ Called("load_pdf_file")
    /\ IF ok
       THEN extracted_data' = corpus /\ bpc' = "s26"
       ELSE Abort /\ UNCHANGED extracted_data
    /\ UNCHANGED <<runs, si_PINECONE_API_KEY, si_GROQ_API_KEY, filter_data,
                   texts_chunk, creates, uploaded, remote, service>>

\* line 26
FilterDocs ==
    /\ bpc = "s26"
    /\ Called("filter_to_minimal_docs")
    /\ filter_data' = filter_to_minimal_docs(extracted_data)
    /\ bpc' = "s27"
    /\ UNCHANGED <<runs, si_PINECONE_API_KEY, si_GROQ_API_KEY, extracted_data,
                   texts_chunk, creates, uploaded, remote, service>>

\* line 27
SplitDocs ==
    /\ bpc = "s27"
    /\ Called("text_split")
    /\ texts_chunk' = text_split(filter_data)
    /\ bpc' = "s32"
    /\ UNCHANGED <<runs, si_PINECONE_API_KEY, si_GROQ_API_KEY, extracted_data,
                   filter_data, creates, uploaded, remote, service>>

\* line 32: load the embeddings model
BatchEmbeddings(ok) ==
    /\ bpc = "s32"
    /\ Called("download_hugging_face_embeddings")
    /\ IF ok THEN bpc' = "s36" ELSE Abort
    /\ UNCHANGED <<runs, si_PINECONE_API_KEY, si_GROQ_API_KEY, extracted_data,
                   filter_data, texts_chunk, creates, uploaded, remote, service>>

\* line 36: make the Pinecone client (no request is sent yet)
PineconeClient ==
    /\ bpc = "s36"
    /\ Called("Pinecone")
    /\ bpc' = "s41"
    /\ UNCHANGED <<runs, si_PINECONE_API_KEY, si_GROQ_API_KEY, extracted_data,
                   filter_data, texts_chunk, creates, uploaded, remote, service>>

\* ListIndexes going on to create_index whatever the listing says
ListIndexes_AlwaysCreate(ok) ==
    /\ bpc = "s41"
    /\ Called("list_indexes")
    /\ IF ok THEN bpc' = "s43" ELSE Abort
    /\ UNCHANGED <<runs, si_PINECONE_API_KEY, si_GROQ_API_KEY, extracted_data,
                   filter_data, texts_chunk, creates, uploaded, remote, service>>

\* line 41: list the indexes; create ours only when its name is not listed
ListIndexes(ok) ==
    /\ bpc = "s41"
    /\ Called("list_indexes")
    /\ IF ok
       THEN bpc' = IF index_name \notin Names(indexes) THEN "s43" ELSE "s53"
       ELSE Abort
    /\ UNCHANGED <<runs, si_PINECONE_API_KEY, si_GROQ_API_KEY, extracted_data,
                   filter_data, texts_chunk, creates, uploaded, remote, service>>

\* lines 43-48: create the index; the service refuses a name that exists
CreateIndex(ok) ==
    /\ bpc = "s43"
    /\ Called("create_index")
    /\ creates' = creates + 1
    /\ IF ok /\ index_name \notin Names(indexes)
       THEN indexes' = indexes \cup {MedIndex} /\ bpc' = "s53"
       ELSE Abort /\ UNCHANGED indexes
    /\ UNCHANGED <<runs, si_PINECONE_API_KEY, si_GROQ_API_KEY, extracted_data,
                   filter_data, texts_chunk, uploaded, entries, service>>

\* line 53: open the index
OpenIndex(ok) ==
    /\ bpc = "s53"
    /\ Called("Index")
    /\ IF ok /\ index_name \in Names(indexes) THEN bpc' = "s57" ELSE Abort
    /\ UNCHANGED <<runs, si_PINECONE_API_KEY, si_GROQ_API_KEY, extracted_data,
                   filter_data, texts_chunk, creates, uploaded, remote, service>>

\* line 57: from_documents is called
BeginUpload ==
    /\ bpc = "s57"
    /\ Called("from_documents")
    /\ bpc' = "s57u"
    /\ UNCHANGED <<runs, si_PINECONE_API_KEY, si_GROQ_API_KEY, extracted_data,
                   filter_data, texts_chunk, creates, uploaded, remote, service>>

\* lines 57-61, inside from_documents: embed and upsert the next chunk
UpsertNext(ok) ==
    /\ bpc = "s57u"
    /\ uploaded < Len(texts_chunk)
    /\ IF ok
       THEN /\ entries' = Append(entries, IndexEntry(runs, uploaded + 1))
            /\ uploaded' = uploaded + 1
            /\ UNCHANGED bpc
       ELSE /\ Abort
            /\ UNCHANGED <<entries, uploaded>>
    /\ UNCHANGED <<runs, si_PINECONE_API_KEY, si_GROQ_API_KEY, extracted_data,
                   filter_data, texts_chunk, calls, creates, indexes, service>>

\* lines 61-62: every chunk is stored, the run ends
FinishUpload ==
    /\ bpc = "s57u"
    /\ uploaded = Len(texts_chunk)
    /\ bpc' = "done"
    /\ UNCHANGED <<runs, si_PINECONE_API_KEY, si_GROQ_API_KEY, extracted_data,
                   filter_data, texts_chunk, calls, creates, uploaded,
                   remote, service>>

BatchNext ==
    \/ \E key \in EnvValues, groq \in EnvValues : BatchStart(key, groq)
    \/ BatchKeyCheck
    \/ BatchSetEnv
    \/ \E ok \in BOOLEAN, corpus \in Corpora : LoadPdfFile(ok, corpus)
    \/ FilterDocs
    \/ SplitDocs
    \/ \E ok \in BOOLEAN : BatchEmbeddings(ok)
    \/ PineconeClient
    \/ \E ok \in BOOLEAN : ListIndexes(ok)
    \/ \E ok \in BOOLEAN : CreateIndex(ok)
    \/ \E ok \in BOOLEAN : OpenIndex(ok)
    \/ BeginUpload
    \/ \E ok \in BOOLEAN : UpsertNext(ok)
    \/ FinishUpload

\* the batch job alone, run after run, with no service deployed
BatchInit == Init /\ PINECONE_API_KEY = None /\ ~GROQ_AVAILABLE

BatchSpec == BatchInit /\ [][BatchNext]_vars

\* ---------------------------------------------------------------- claims
Last(s) == s[Len(s)]

\* worker w ends its request in this step
Answers(w) == pc[w] # "idle" /\ pc'[w] = "idle"

\* lines of get_rag_chain() after the check of line 47
InitLines == {"l51", "l58", "l64", "l71", "l78", "l82", "l89", "l103", "l111", "l113"}

InitErrors == {"Initialization failed", "Unexpected initialization error"}

sideEffects == <<embLoads, connects, groqConstructs, composes>>

\* C1 (requests handled one at a time): once the chain is stored, every
\* later get_rag_chain() call returns that same object and no initialization
\* side effect (embeddings load, index connection, ChatGroq construction,
\* chain composition) happens again.
C1_ChainSingleton ==
    [][_rag_chain # None =>
          /\ _rag_chain' = _rag_chain
          /\ sideEffects' = sideEffects
          /\ \A w \in Workers :
                (pc[w] # "l146" /\ pc'[w] = "l146") => rag_chain'[w] = _rag_chain
      ]_vars

\* two calls got the chain, the second one after the only initialization
C1_Witness ==
    /\ _rag_chain # None
    /\ invokes = 2
    /\ sideEffects = <<1, 1, 1, 1>>

\* C2 (requests handled one at a time): a get_rag_chain() call that fails
\* raises (500 with an initialization error), leaves _rag_chain None, and
\* the next call that finds _rag_chain None starts again at the key check.
C2_FailedInitRetried ==
    [][\A w \in Workers :
          /\ (pc[w] \in InitLines /\ Answers(w)) =>
                /\ _rag_chain' = None
                /\ Last(log').response.status = 500
                /\ Last(log').response.error \in InitErrors
          /\ (pc[w] = "l47" /\ pc'[w] # "l47" /\ _rag_chain = None) =>
                pc'[w] = "l51"
      ]_vars

\* a failed initialization was followed by one that made the chain ready
C2_Witness ==
    /\ Len(log) >= 1
    /\ log[1].response.error \in InitErrors
    /\ _rag_chain # None
    /\ embLoads = 2

\* C3: whenever no request is being handled and the chain is uninitialized,
\* no retriever and no chat model is stored in the module-level state.
C3_NoPartialState ==
    (AllIdle /\ _rag_chain = None) => (_retriever = None /\ _chat_model = None)

\* C4: a request whose invoke raises gets 500 "Chain execution failed", the
\* stored chain and its components stay as they are (ready), nothing is
\* initialized again, and a call finding the chain ready goes straight to
\* invoke with that chain.
C4_FailedInvokeKeepsChain ==
    [][\A w \in Workers :
          /\ (pc[w] = "l146" /\ Answers(w)) =>
                /\ _rag_chain # None
                /\ globals' = globals
                /\ sideEffects' = sideEffects
                /\ \/ Last(log').response.status = 200
                   \/ Last(log').response =
                         Resp(500, "Chain execution failed", "invoke raised", "")
          /\ (pc[w] = "l47" /\ pc'[w] # "l47" /\ _rag_chain # None) =>
                /\ pc'[w] = "l146"
                /\ rag_chain'[w] = _rag_chain
                /\ sideEffects' = sideEffects
      ]_vars

\* an execution failure, then an answered request, with one initialization
C4_Witness ==
    /\ AllIdle
    /\ Len(log) = 2
    /\ log[1].response.error = "Chain execution failed"
    /\ log[2].response.status = 200
    /\ sideEffects = <<1, 1, 1, 1>>

\* C5: a request is answered 400 {"error": "No message provided"} exactly
\* when its msg is empty or missing in form and query string; that answer
\* changes no chain state and calls nothing, and no worker is ever inside
\* get_rag_chain() or at invoke with an empty message.
C5_ValidationFirst ==
    /\ [](\A i \in DOMAIN log :
             ~Truthy(log[i].request) <=> log[i].response.status = 400)
    /\ [](\A w \in Workers : pc[w] # "idle" => Truthy(msg[w]))
    /\ [][(Len(log') > Len(log) /\ ~Truthy(Last(log').request)) =>
             /\ Last(log').response = Resp(400, "No message provided", "", "")
             /\ globals' = globals
             /\ counters' = counters
             /\ pc' = pc
         ]_vars

\* an empty message was rejected while the chain was ready
C5_Witness ==
    /\ _rag_chain # None
    /\ Len(log) = 2
    /\ log[1].response.status = 200
    /\ log[2].response.status = 400

\* an empty message was rejected while the chain was uninitialized
C5_WitnessUninit ==
    /\ _rag_chain = None
    /\ Len(log) >= 1
    /\ Last(log).response.status = 400

\* C6: a stored chain is never replaced: the chain stored by the first
\* initialization that completes is the one kept from then on.
C6_FirstInitWins ==
    [][_rag_chain # None => _rag_chain' = _rag_chain]_vars

\* C7: the check of line 47 is not repeated, so every worker that composes
\* a chain has itself loaded the embeddings, connected to the index and
\* constructed a chat model: each side effect happened at least as often as
\* the composition, which may be more than once, and the chain is ready
\* whenever a composition happened.
C7_UnguardedInitRace ==
    /\ composes <= groqConstructs
    /\ groqConstructs <= connects
    /\ connects <= embLoads
    /\ (composes >= 1 => _rag_chain # None)
    /\ \A w \in Workers :
          pc[w] \in {"l103", "l111"} => groqConstructs > composes

\* two workers both ran the whole initialization and the chain is ready
C7_Witness ==
    /\ AllIdle
    /\ sideEffects = <<2, 2, 2, 2>>
    /\ _rag_chain # None

\* C8: the chain is uninitialized at process start, and once _rag_chain is
\* non-None no step of any request sets it back to None.
C8_LifecycleMonotonic ==
    /\ _rag_chain = None
    /\ [][_rag_chain # None => _rag_chain' # None]_vars

\* the chain is ready and requests have since been rejected or have failed
C8_Witness ==
    /\ _rag_chain # None
    /\ Len(log) >= 1
    /\ Last(log).response.status = 500

ModelProblems ==
    { "Groq model not available in this deployment (langchain_groq missing).",
      "Failed to initialize ChatGroq" }

EarlierProblems ==
    { "PINECONE_API_KEY is not set in environment.",
      "Failed to load embeddings",
      "Failed to import PineconeVectorStore",
      "Failed to connect to Pinecone index 'medical-chatbot'",
      "Failed to import LangChain chain builders" }

\* C9 as stated: with GROQ_AVAILABLE false every request with a non-empty
\* message gets 500 "Initialization failed" with details naming the model
\* problem.
C9_Original ==
    ~GROQ_AVAILABLE =>
        \A i \in DOMAIN log :
            Truthy(log[i].request) =>
                /\ log[i].response.status = 500
                /\ log[i].response.error = "Initialization failed"
                /\ log[i].response.details \in ModelProblems

\* C9 amended: with GROQ_AVAILABLE false the chain never becomes ready,
\* invoke is never called and every request with a non-empty message gets
\* 500 "Initialization failed", whose details name the model problem or the
\* earlier step that failed in that attempt; an attempt that fails at the
\* chat-model step (Groq unavailable or ChatGroq construction failing)
\* answers 500 "Initialization failed" with details naming the model problem
\* and stores neither a chat model nor a chain.
C9_NoFallbackModel ==
    /\ [](~GROQ_AVAILABLE =>
             /\ _rag_chain = None
             /\ _chat_model = None
             /\ invokes = 0
             /\ \A i \in DOMAIN log :
                   Truthy(log[i].request) =>
                      /\ log[i].response.status = 500
                      /\ log[i].response.error = "Initialization failed"
                      /\ log[i].response.details \in ModelProblems \cup EarlierProblems)
    /\ [][\A w \in Workers :
             (pc[w] = "l89" /\ Answers(w)) =>
                /\ Last(log').response.status = 500
                /\ Last(log').response.error = "Initialization failed"
                /\ Last(log').response.details \in ModelProblems
                /\ (~GROQ_AVAILABLE => Last(log').response.details =
                      "Groq model not available in this deployment (langchain_groq missing).")
                /\ globals' = globals
         ]_vars

\* without Groq, an attempt reached the chat-model step and was refused
C9_Witness ==
    /\ ~GROQ_AVAILABLE
    /\ Len(log) >= 1
    /\ Last(log).response.details =
          "Groq model not available in this deployment (langchain_groq missing)."
    /\ connects >= 1

\* C10: with PINECONE_API_KEY unset (or empty) every request with a
\* non-empty message gets 500 "Initialization failed" with the details
\* "PINECONE_API_KEY is not set in environment.", the chain stays
\* uninitialized, nothing is loaded or connected and invoke is never called.
C10_MissingPineconeKey ==
    ~Truthy(PINECONE_API_KEY) =>
        /\ _rag_chain = None
        /\ invokes = 0
        /\ sideEffects = <<0, 0, 0, 0>>
        /\ \A i \in DOMAIN log :
              Truthy(log[i].request) =>
                 log[i].response =
                    Resp(500, "Initialization failed",
                         "PINECONE_API_KEY is not set in environment.", "")

\* without the key, two requests with a message were both refused
C10_Witness ==
    /\ ~Truthy(PINECONE_API_KEY)
    /\ Len(log) = 2
    /\ Truthy(log[1].request)
    /\ Truthy(log[2].request)

\* C11: every answered request is in exactly one class: 400 iff the message
\* is empty; 500 with an initialization error iff get_rag_chain() raised;
\* 500 "Chain execution failed" iff the chain was obtained and invoke raised;
\* 200 with the answer as plain text iff invoke returned ({"answer": X}
\* gives body X).  Every request that ends, ends with one of these.
C11_ResponseClassification ==
    /\ [](\A i \in DOMAIN log :
             LET r == log[i].response
             IN /\ r.status \in {200, 400, 500}
                /\ (r.status = 400 <=> ~Truthy(log[i].request))
                /\ (r.status = 400 => r = Resp(400, "No message provided", "", ""))
                /\ (r.status = 500 =>
                      /\ r.error \in InitErrors \cup {"Chain execution failed"}
                      /\ r.body = "")
                /\ (r.status = 200 => r.error = "" /\ r.details = ""))
    /\ [][\A w \in Workers :
             Answers(w) =>
                /\ Len(log') = Len(log) + 1
                /\ pc[w] \in InitLines \cup {"l146"}
                /\ (pc[w] \in InitLines <=>
                      (Last(log').response.status = 500
                         /\ Last(log').response.error \in InitErrors))
                /\ (pc[w] = "l146" <=>
                      \/ Last(log').response.status = 200
                      \/ Last(log').response.error = "Chain execution failed")
         ]_vars
    /\ [][\A w \in Workers : \A r \in InvokeResults :
             Invoke(w, r) =>
                /\ (r.kind = "raise" <=>
                      Last(log').response.error = "Chain execution failed")
                /\ (r.kind # "raise" <=> Last(log').response.status = 200)
                /\ (r = [kind |-> "dict", answer |-> Str("X")] =>
                      Last(log').response = Resp(200, "", "", "X"))
         ]_vars

\* an unexpected initialization exception was answered with a 500, and a
\* chain result {"answer": "X"} was answered with the body X
C11_Witness ==
    /\ Len(log) = 2
    /\ log[1].response.error = "Unexpected initialization error"
    /\ log[2].response = Resp(200, "", "", "X")

\* C12: rag_chain.invoke is called once per request that obtained the chain
\* and never for another request: the calls made equal the requests answered
\* 200 or "Chain execution failed", and each call ends its request.
C12_NoGenerationRetry ==
    /\ [](invokes = Cardinality({i \in DOMAIN log :
                        \/ log[i].response.status = 200
                        \/ log[i].response.error = "Chain execution failed"}))
    /\ [][invokes' # invokes =>
             /\ invokes' = invokes + 1
             /\ \E w \in Workers : pc[w] = "l146" /\ Answers(w)
         ]_vars

\* a generation call failed, its request is over and no second call was made
C12_Witness ==
    /\ AllIdle
    /\ Len(log) = 1
    /\ log[1].response.error = "Chain execution failed"
    /\ invokes = 1

\* the line executed after each line of an initialization attempt
NextLine(line) ==
    CASE line = "l51" -> "l58"
      [] line = "l58" -> "l64"
      [] line = "l64" -> "l71"
      [] line = "l71" -> "l78"
      [] line = "l78" -> "l82"
      [] line = "l82" -> "l89"
      [] line = "l89" -> "l103"
      [] line = "l103" -> "l111"
      [] line = "l111" -> "l113"
      [] line = "l113" -> "l146"

\* C18: an attempt runs key check, embeddings load, Pinecone import, index
\* connection, retriever, builder import, chat model, prompt and composition
\* in this order and ends at the first step that fails; so no worker is past
\* the key check without a key, and a worker at or past the chat-model step
\* holds the embeddings and the index connection made in this attempt.
C18_InitStepOrder ==
    /\ [][\A w \in Workers :
             (pc[w] \in InitLines /\ pc'[w] # pc[w]) =>
                pc'[w] \in {NextLine(pc[w]), "idle"}
         ]_vars
    /\ [](\A w \in Workers :
             pc[w] \in InitLines \ {"l51"} => Truthy(PINECONE_API_KEY))
    /\ [](\A w \in Workers :
             pc[w] \in {"l89", "l103", "l111", "l113"} =>
                /\ embeddings[w] # None
                /\ docsearch[w] # None
                /\ docsearch[w].embedding = embeddings[w])
    /\ [](embLoads >= connects /\ connects >= groqConstructs)

\* the chat model was found unavailable only after one embeddings load and
\* one index connection, which left a retriever behind
C18_Witness ==
    /\ AllIdle
    /\ ~GROQ_AVAILABLE
    /\ Len(log) = 1
    /\ log[1].response.details \in ModelProblems
    /\ embLoads = 1
    /\ connects = 1
    /\ _retriever # None

\* C19: whenever a chain is stored, its retriever and its chat model were
\* built by the worker that composed it, in that same attempt, and the
\* module-level _retriever and _chat_model are the components of the chain.
C19_ComponentConsistency ==
    _rag_chain # None =>
        /\ _rag_chain.retriever.by = _rag_chain.by
        /\ _rag_chain.model.by = _rag_chain.by
        /\ _retriever = _rag_chain.retriever
        /\ _chat_model = _rag_chain.model

\* ------------------------------------------------ claims on the batch job
InCalls(name) == \E i \in DOMAIN calls : calls[i] = name

IsPrefix(a, b) == Len(a) <= Len(b) /\ \A i \in 1..Len(a) : a[i] = b[i]

\* lines of a run at which filter_data, texts_chunk are set
AfterFilter == {"s27", "s32", "s36", "s41", "s43", "s53", "s57", "s57u", "done"}
AfterSplit == AfterFilter \ {"s27"}

\* C13: a run calls create_index exactly when "medical-chatbot" is not among
\* the listed names; the index is then added with dimension 384 and metric
\* cosine, and over all runs an index of that name, once there, is never
\* added again or changed.
C13_CreateIfAbsent ==
    /\ [][(bpc = "s41" /\ bpc' \in {"s43", "s53"}) =>
             (bpc' = "s43" <=> index_name \notin Names(indexes))]_vars
    /\ [][creates' # creates =>
             /\ index_name \notin Names(indexes)
             /\ creates' = creates + 1
             /\ indexes' \in {indexes, indexes \cup {MedIndex}}]_vars
    /\ [][indexes' # indexes => creates' = creates + 1]_vars
    /\ [][(index_name \in Names(indexes)) => indexes' = indexes]_vars
    /\ [](Cardinality({ix \in indexes : ix.name = index_name}) <= 1)

\* the first run created the index, the second found it and created nothing
C13_Witness ==
    /\ runs = 2
    /\ bpc = "done"
    /\ creates = 1
    /\ ~InCalls("create_index")
    /\ InCalls("list_indexes")
    /\ MedIndex \in indexes

\* C14: no step of a /get, /health or / request and no step of
\* get_rag_chain() changes the indexes of the account or the entries of the
\* index; /health and / call nothing; a worker holds a connection only to an
\* index that exists.
C14_BatchSoleWriter ==
    /\ [][indexes' = indexes /\ entries' = entries]_vars
    /\ [][pages' # pages => (globals' = globals /\ counters' = counters)]_vars
    /\ [](\A w \in Workers : docsearch[w] # None => index_name \in Names(indexes))

\* a request was answered from the filled index, which is as it was
C14_Witness ==
    /\ _rag_chain # None
    /\ Len(pages) = 1
    /\ Len(log) >= 1
    /\ Last(log).response.status = 200
    /\ entries = <<IndexEntry(0, 1)>>

\* C15: the filtered documents are as many as the loaded ones, in the same
\* order, each with the same page_content and with metadata exactly
\* {source: s}, s being the loaded document's source or None when it has
\* none; filtering them again gives the same documents.
C15_FilterIdempotent ==
    bpc \in AfterFilter =>
        /\ filter_to_minimal_docs(filter_data) = filter_data
        /\ Len(filter_data) = Len(extracted_data)
        /\ \A i \in 1..Len(filter_data) :
              /\ filter_data[i].page_content = extracted_data[i].page_content
              /\ DOMAIN filter_data[i].metadata = {"source"}
              /\ filter_data[i].metadata.source =
                    (IF "source" \in DOMAIN extracted_data[i].metadata
                     THEN extracted_data[i].metadata.source
                     ELSE None)

\* two documents were filtered: one without a source, one with a page number
C15_Witness ==
    /\ bpc \in AfterFilter
    /\ Len(filter_data) = 2
    /\ filter_data[1].metadata.source = None
    /\ DOMAIN extracted_data[2].metadata = {"source", "page"}

\* c occurs in t as a run of consecutive characters
IsSubText(c, t) ==
    \E s \in 1..((Len(t) + 1) - Len(c)) : \A k \in 1..Len(c) : t[s + k - 1] = c[k]

\* C16: every chunk text_split returns has between 1 and 500 characters
\* (the splitter ends at single characters, so no token is indivisible), is
\* cut from one of the documents and carries that document's metadata.
C16_ChunkSizeBound ==
    /\ [](bpc \in AfterSplit =>
             \A i \in 1..Len(texts_chunk) :
                /\ Len(texts_chunk[i].page_content) <= chunk_size
                /\ Len(texts_chunk[i].page_content) >= 1)
    /\ [][(bpc = "s27" /\ bpc' = "s32") =>
             \A i \in 1..Len(texts_chunk') :
                \E j \in 1..Len(filter_data) :
                   /\ texts_chunk'[i].metadata = filter_data[j].metadata
                   /\ IsSubText(texts_chunk'[i].page_content,
                                filter_data[j].page_content)
         ]_vars

\* a token of 1100 characters was cut into chunks of 500, 500 and 140
C16_Witness ==
    /\ bpc \in AfterSplit
    /\ Len(filter_data) = 1
    /\ Len(filter_data[1].page_content) > 2 * chunk_size
    /\ Len(texts_chunk) = 3
    /\ Len(texts_chunk[1].page_content) = chunk_size
    /\ Len(texts_chunk[3].page_content) = 140

\* the line executed after each line of a run (two for the index check)
BatchNextLines(line) ==
    CASE line = "s13" -> {"s16"}
      [] line = "s16" -> {"s23"}
      [] line = "s23" -> {"s26"}
      [] line = "s26" -> {"s27"}
      [] line = "s27" -> {"s32"}
      [] line = "s32" -> {"s36"}
      [] line = "s36" -> {"s41"}
      [] line = "s41" -> {"s43", "s53"}
      [] line = "s43" -> {"s53"}
      [] line = "s53" -> {"s57"}
      [] line = "s57" -> {"s57u"}
      [] line = "s57u" -> {"s57u", "done"}
      [] OTHER -> {"s13"}

CallOrder ==
    << "load_pdf_file", "filter_to_minimal_docs", "text_split",
       "download_hugging_face_embeddings", "Pinecone", "list_indexes",
       "create_index", "Index", "from_documents" >>

CallOrderNoCreate == SelectSeq(CallOrder, LAMBDA c : c # "create_index")

\* C17: a run executes key check, load, filter, split, embeddings, connect,
\* ensure index, upload in this order and ends at the first step that fails;
\* chunks are uploaded only after the index was listed and exists; without
\* PINECONE_API_KEY nothing is loaded and nothing is called; a failure
\* during the upload leaves the index and the entries already stored.
C17_BatchOrderAndAbort ==
    /\ [][bpc' # bpc => bpc' \in BatchNextLines(bpc) \cup {"failed"}]_vars
    /\ [](IsPrefix(calls, CallOrder) \/ IsPrefix(calls, CallOrderNoCreate))
    /\ [](uploaded > 0 => index_name \in Names(indexes) /\ InCalls("list_indexes"))
    /\ []((bpc # "off" /\ ~Truthy(si_PINECONE_API_KEY)) =>
             /\ bpc \in {"s13", "failed"}
             /\ calls = << >>
             /\ extracted_data = None
             /\ uploaded = 0)
    /\ [][bpc = "failed" => (remote' = remote /\ (calls' = calls \/ bpc' = "s13"))]_vars
    /\ [][(bpc = "s57u" /\ bpc' = "failed") =>
             (remote' = remote /\ uploaded' = uploaded)]_vars

\* a run created the index, stored one chunk and failed on the next one
C17_Witness ==
    /\ bpc = "failed"
    /\ InCalls("create_index")
    /\ MedIndex \in indexes
    /\ uploaded = 1
    /\ Len(texts_chunk) > 1
    /\ entries = <<IndexEntry(runs, 1)>>

====
